---- MODULE Spec2Model ----
(***************************************************************************)
(* ipmon: the network-change monitor (monitor.go) and the ipmond handler   *)
(* (cmd/ipmond/main.go) as a state machine.                                *)
(*                                                                         *)
(* The kernel's links, addresses and routes are state that the environment *)
(* changes; every change queues a record on the matching netlink           *)
(* subscription, whose goroutine forwards it into Monitor's one-slot       *)
(* channel.  Monitor is the select loop; the handler is the closure ipmond *)
(* passes to it.                                                           *)
(***************************************************************************)
EXTENDS Integers, Sequences, FiniteSets, TLC

(* ------------------------------ bounds -------------------------------- *)

\* Environment events in one run: kernel changes (address, link, route,
\* neighbor) and subscriptions ending.
MaxEvents == 2

\* The values of the interval argument (-i) tried, in seconds.
Intervals == {-1, 0, 1}

\* The addresses of eth0 in the kernel configurations MarshalEnv is tried
\* on.
MaxEnvAddrs == 2

(* ------------------------- program constants -------------------------- *)

IFF_UP == 1
IFF_BROADCAST == 2
IFF_LOOPBACK == 8
IFF_POINTOPOINT == 16
IFF_NOARP == 128
IFF_PROMISC == 256
IFF_MULTICAST == 4096

\* ifi_flags and ifi_change are kept as the set of their one-bit masks.

SCOPE_UNIVERSE == 0
SCOPE_LINK == 253
SCOPE_HOST == 254

RT_TABLE_MAIN == 254
RT_TABLE_LOCAL == 255
RT_TABLE_POLICY == 100

RTM_NEWROUTE == 24
RTM_DELROUTE == 25

IPv4len == 4
IPv6len == 16

(* --------------------------- net.IP values ---------------------------- *)

\* A nil net.IP, a nil *net.IPNet, a nil *Address.
NoIP == <<>>
NoDst == [IP |-> <<>>, Bits |-> -1]
NoAddress == [Address |-> <<>>, CIDR |-> -1]

Zeros(n) == [i \in 1..n |-> 0]

V4Loop == <<127, 0, 0, 1>>
V4Host == <<10, 0, 0, 2>>
V4Gw == <<10, 0, 0, 1>>
V4Gw2 == <<10, 0, 0, 254>>
V4Net == <<10, 0, 0, 0>>
V4Other == <<192, 0, 2, 0>>
V4LL == <<169, 254, 7, 7>>
V4Zero == <<0, 0, 0, 0>>
V4Mcast == <<224, 0, 0, 1>>
V4Bcast == <<255, 255, 255, 255>>
V6Unspec == Zeros(16)
V6Loop == Zeros(15) \o <<1>>
V6LL == <<254, 128>> \o Zeros(13) \o <<1>>
V6LLNet == <<254, 128>> \o Zeros(14)
V6ULA == <<253, 0>> \o Zeros(13) \o <<1>>
V6Glob == <<32, 1, 13, 184>> \o Zeros(11) \o <<1>>
V6Mcast == <<255, 2>> \o Zeros(13) \o <<1>>

\* ip.To4(): the 4-byte form of an IPv4 or IPv4-mapped address, else nil.
To4(ip) ==
    IF Len(ip) = IPv4len THEN ip
    ELSE IF /\ Len(ip) = IPv6len
            /\ \A i \in 1..10 : ip[i] = 0
            /\ ip[11] = 255
            /\ ip[12] = 255
         THEN SubSeq(ip, 13, 16)
         ELSE NoIP

\* ip.To16(): the 16-byte form (IPv4 as IPv4-mapped), else nil.
To16(ip) ==
    IF Len(ip) = IPv4len THEN Zeros(10) \o <<255, 255>> \o ip
    ELSE IF Len(ip) = IPv6len THEN ip
    ELSE NoIP

\* ip.Equal(x): equality up to the IPv4 / IPv4-mapped form.
IPEqual(ip, x) ==
    /\ Len(ip) \in {IPv4len, IPv6len}
    /\ Len(x) \in {IPv4len, IPv6len}
    /\ To16(ip) = To16(x)

IsUnspecified(ip) == IPEqual(ip, V4Zero) \/ IPEqual(ip, V6Unspec)

IsLoopback(ip) ==
    IF To4(ip) # NoIP THEN To4(ip)[1] = 127 ELSE IPEqual(ip, V6Loop)

IsMulticast(ip) ==
    IF To4(ip) # NoIP THEN To4(ip)[1] \div 16 = 14
    ELSE Len(ip) = IPv6len /\ ip[1] = 255

\* ip.IsLinkLocalUnicast(): 169.254.0.0/16 or fe80::/10.
IsLinkLocalUnicast(ip) ==
    IF To4(ip) # NoIP THEN To4(ip)[1] = 169 /\ To4(ip)[2] = 254
    ELSE Len(ip) = IPv6len /\ ip[1] = 254 /\ ip[2] \div 64 = 2

\* ip.IsGlobalUnicast(): a unicast address that is none of the above.
IsGlobalUnicast(ip) ==
    /\ Len(ip) \in {IPv4len, IPv6len}
    /\ ~IPEqual(ip, V4Bcast)
    /\ ~IsUnspecified(ip)
    /\ ~IsLoopback(ip)
    /\ ~IsMulticast(ip)
    /\ ~IsLinkLocalUnicast(ip)

\* ip.IsPrivate(): RFC 1918 or fc00::/7.
IsPrivate(ip) ==
    IF To4(ip) # NoIP
    THEN \/ To4(ip)[1] = 10
         \/ To4(ip)[1] = 172 /\ To4(ip)[2] \div 16 = 1
         \/ To4(ip)[1] = 192 /\ To4(ip)[2] = 168
    ELSE Len(ip) = IPv6len /\ ip[1] \div 2 = 126

\* ip.String(): the text of an address, as its family and canonical bytes;
\* "" is <<>> and "<nil>" is <<"nil">>.
IPString(ip) ==
    IF Len(ip) = 0 THEN <<"nil">>
    ELSE IF To4(ip) # NoIP THEN <<"v4">> \o To4(ip)
    ELSE IF Len(ip) = IPv6len THEN <<"v6">> \o ip
    ELSE <<"?">> \o ip

\* net.ParseIP(s): always the 16-byte form; nil when s is no address.
ParseIP(s) ==
    IF Len(s) = 5 /\ s[1] = "v4" THEN To16(SubSeq(s, 2, 5))
    ELSE IF Len(s) = 17 /\ s[1] = "v6" THEN SubSeq(s, 2, 17)
    ELSE NoIP

\* ipnet.String(): "address/bits".
IPNetString(n) == <<"net">> \o Tail(IPString(n.IP)) \o <<n.Bits>>

EmptyString == <<>>
DefaultString == <<"default">>

\* a & c != 0 for a one-bit mask c.
HasBit(a, c) == c \in a

\* a ^ b
Xor(a, b) == (a \ b) \cup (b \ a)

(* ------------------------------ strings ------------------------------- *)
\* A Go string is the sequence of its bytes; sort.Strings compares them
\* byte by byte.
\* "IPMON_TYPE="
S_TYPE == <<73, 80, 77, 79, 78, 95, 84, 89, 80, 69, 61>>
\* "IPMON_CHANGE="
S_CHANGE == <<73, 80, 77, 79, 78, 95, 67, 72, 65, 78, 71, 69, 61>>
\* "IPMON_ADDR="
S_ADDR == <<73, 80, 77, 79, 78, 95, 65, 68, 68, 82, 61>>
\* "IPMON_MASK="
S_MASK == <<73, 80, 77, 79, 78, 95, 77, 65, 83, 75, 61>>
\* "IPMON_GW="
S_GW == <<73, 80, 77, 79, 78, 95, 71, 87, 61>>
\* "IPMON_SRC="
S_SRC == <<73, 80, 77, 79, 78, 95, 83, 82, 67, 61>>
\* "IPMON_LL_IPV4_"
S_LL_IPV4_ == <<73, 80, 77, 79, 78, 95, 76, 76, 95, 73, 80, 86, 52, 95>>
\* "IPMON_LL_IPV6_"
S_LL_IPV6_ == <<73, 80, 77, 79, 78, 95, 76, 76, 95, 73, 80, 86, 54, 95>>
\* "IPMON_IPV4_TTL_"
S_IPV4_TTL_ == <<73, 80, 77, 79, 78, 95, 73, 80, 86, 52, 95, 84, 84, 76, 95>>
\* "IPMON_IPV4_"
S_IPV4_ == <<73, 80, 77, 79, 78, 95, 73, 80, 86, 52, 95>>
\* "IPMON_IPV4_MASK_"
S_IPV4_MASK_ == <<73, 80, 77, 79, 78, 95, 73, 80, 86, 52, 95, 77, 65, 83, 75, 95>>
\* "IPMON_IPV6_TTL_"
S_IPV6_TTL_ == <<73, 80, 77, 79, 78, 95, 73, 80, 86, 54, 95, 84, 84, 76, 95>>
\* "IPMON_IPV6_"
S_IPV6_ == <<73, 80, 77, 79, 78, 95, 73, 80, 86, 54, 95>>
\* "IPMON_IPV6_MASK_"
S_IPV6_MASK_ == <<73, 80, 77, 79, 78, 95, 73, 80, 86, 54, 95, 77, 65, 83, 75, 95>>
\* "IPMON_UP_"
S_UP_ == <<73, 80, 77, 79, 78, 95, 85, 80, 95>>
\* "IPMON_LINK="
S_LINK == <<73, 80, 77, 79, 78, 95, 76, 73, 78, 75, 61>>
\* "IPMON_IPV4="
S_IPV4 == <<73, 80, 77, 79, 78, 95, 73, 80, 86, 52, 61>>
\* "IPMON_IPV4_IF="
S_IPV4_IF == <<73, 80, 77, 79, 78, 95, 73, 80, 86, 52, 95, 73, 70, 61>>
\* "IPMON_IPV4_GW="
S_IPV4_GW == <<73, 80, 77, 79, 78, 95, 73, 80, 86, 52, 95, 71, 87, 61>>
\* "IPMON_IPV6="
S_IPV6 == <<73, 80, 77, 79, 78, 95, 73, 80, 86, 54, 61>>
\* "IPMON_IPV6_IF="
S_IPV6_IF == <<73, 80, 77, 79, 78, 95, 73, 80, 86, 54, 95, 73, 70, 61>>
\* "IPMON_IPV6_GW="
S_IPV6_GW == <<73, 80, 77, 79, 78, 95, 73, 80, 86, 54, 95, 71, 87, 61>>

\* "=", ".", ":", "0", "1"
ChEq == <<61>>
ChDot == <<46>>
ChColon == <<58>>
ChZero == <<48>>
ChOne == <<49>>

\* The bytes of the Type, Change and link-name strings the program uses.
Ascii(s) ==
    CASE s = "" -> <<>>
      [] s = "init" -> <<105, 110, 105, 116>>
      [] s = "interval" -> <<105, 110, 116, 101, 114, 118, 97, 108>>
      [] s = "address" -> <<97, 100, 100, 114, 101, 115, 115>>
      [] s = "link" -> <<108, 105, 110, 107>>
      [] s = "route" -> <<114, 111, 117, 116, 101>>
      [] s = "default_route" -> <<100, 101, 102, 97, 117, 108, 116, 95, 114, 111, 117, 116, 101>>
      [] s = "add" -> <<97, 100, 100>>
      [] s = "delete" -> <<100, 101, 108, 101, 116, 101>>
      [] s = "up" -> <<117, 112>>
      [] s = "down" -> <<100, 111, 119, 110>>
      [] s = "promisc" -> <<112, 114, 111, 109, 105, 115, 99>>
      [] s = "nopromisc" -> <<110, 111, 112, 114, 111, 109, 105, 115, 99>>
      [] s = "noarp" -> <<110, 111, 97, 114, 112>>
      [] s = "arp" -> <<97, 114, 112>>
      [] s = "broadcast" -> <<98, 114, 111, 97, 100, 99, 97, 115, 116>>
      [] s = "nobroadcast" -> <<110, 111, 98, 114, 111, 97, 100, 99, 97, 115, 116>>
      [] s = "loopback" -> <<108, 111, 111, 112, 98, 97, 99, 107>>
      [] s = "noloopback" -> <<110, 111, 108, 111, 111, 112, 98, 97, 99, 107>>
      [] s = "pointtopoint" -> <<112, 111, 105, 110, 116, 116, 111, 112, 111, 105, 110, 116>>
      [] s = "nopointtopoint" -> <<110, 111, 112, 111, 105, 110, 116, 116, 111, 112, 111, 105, 110, 116>>
      [] s = "multicast" -> <<109, 117, 108, 116, 105, 99, 97, 115, 116>>
      [] s = "nomulticast" -> <<110, 111, 109, 117, 108, 116, 105, 99, 97, 115, 116>>
      [] s = "lo" -> <<108, 111>>
      [] s = "eth0" -> <<101, 116, 104, 48>>

\* fmt's %d of n >= 0.
RECURSIVE Dec(_)
Dec(n) == IF n < 10 THEN <<48 + n>> ELSE Dec(n \div 10) \o <<48 + (n % 10)>>

\* appendHex: lower-case hexadecimal without leading zeros.
RECURSIVE Hex(_)
Hex(n) ==
    LET d == n % 16
        c == IF d < 10 THEN 48 + d ELSE 87 + d
    IN  IF n < 16 THEN <<c>> ELSE Hex(n \div 16) \o <<c>>

\* The eight 16-bit groups of a 16-byte address.
Groups(ip) == [i \in 1..8 |-> ip[2 * i - 1] * 256 + ip[2 * i]]

\* The number of zero groups from group i on.
RECURSIVE ZeroRun(_, _)
ZeroRun(g, i) == IF i > 8 \/ g[i] # 0 THEN 0 ELSE 1 + ZeroRun(g, i + 1)

\* The groups from i on, with "::" for the run of zeros from e0 up to e1.
RECURSIVE V6From(_, _, _, _)
V6From(g, i, e0, e1) ==
    IF i > 8 THEN <<>>
    ELSE IF i = e0
    THEN ChColon \o ChColon \o
         (IF e1 > 8 THEN <<>> ELSE Hex(g[e1]) \o V6From(g, e1 + 1, e0, e1))
    ELSE (IF i > 1 THEN ChColon ELSE <<>>) \o Hex(g[i]) \o V6From(g, i + 1, e0, e1)

\* The text of a 16-byte address that is not IPv4-mapped: the first longest
\* run of two or more zero groups is written "::".
V6Text(ip) ==
    LET g == Groups(ip)
        m == CHOOSE n \in 0..8 :
                 /\ \E i \in 1..8 : ZeroRun(g, i) = n
                 /\ \A i \in 1..8 : ZeroRun(g, i) <= n
        e0 == IF m < 2 THEN 0
              ELSE CHOOSE i \in 1..8 :
                       /\ ZeroRun(g, i) = m
                       /\ \A j \in 1..(i - 1) : ZeroRun(g, j) < m
    IN  V6From(g, 1, e0, e0 + m)

\* The text of a 4-byte address.
V4Text(ip) ==
    Dec(ip[1]) \o ChDot \o Dec(ip[2]) \o ChDot \o Dec(ip[3]) \o ChDot \o Dec(ip[4])

\* The bytes of what IPString returns, "" for "".
Text(s) ==
    IF s = <<>> THEN <<>>
    ELSE IF s[1] = "v4" THEN V4Text(Tail(s))
    ELSE IF s[1] = "v6" THEN V6Text(Tail(s))
    ELSE IF s[1] = "default" THEN <<100, 101, 102, 97, 117, 108, 116>>
    ELSE <<60, 110, 105, 108, 62>>

\* a < b for strings: at the first byte that differs, else by length.
StrLess(a, b) ==
    LET n == IF Len(a) < Len(b) THEN Len(a) ELSE Len(b)
        diff == {i \in 1..n : a[i] # b[i]}
    IN  IF diff = {} THEN Len(a) < Len(b)
        ELSE LET k == CHOOSE i \in diff : \A j \in diff : i <= j
             IN  a[k] < b[k]

\* x put into the sorted list s.
RECURSIVE InsertString(_, _)
InsertString(x, s) ==
    IF s = <<>> THEN <<x>>
    ELSE IF StrLess(x, Head(s)) THEN <<x>> \o s
    ELSE <<Head(s)>> \o InsertString(x, Tail(s))

\* sort.Strings(env)
RECURSIVE SortStrings(_)
SortStrings(s) ==
    IF s = <<>> THEN <<>> ELSE InsertString(Head(s), SortStrings(Tail(s)))

(* ------------------------- kernel configuration ----------------------- *)

\* netlink.Addr: address, prefix length (Mask.Size()), valid lifetime.
Addr(ip, bits, lft) == [IP |-> ip, Bits |-> bits, ValidLft |-> lft]

\* *net.IPNet
Net(ip, bits) == [IP |-> ip, Bits |-> bits]

\* The address family of a route of RouteList(nil, FAMILY_ALL).
AF_INET == 2
AF_INET6 == 10

\* netlink.Route; its Family is that of its addresses.
Rt(dst, gw, src, scope, table, link, prio, proto) ==
    [Dst |-> dst, Gw |-> gw, Src |-> src, Scope |-> scope, Table |-> table,
     LinkIndex |-> link, ILinkIndex |-> 0, Priority |-> prio, Protocol |-> proto,
     Family |-> IF \/ Len(gw) = IPv4len
                   \/ Len(src) = IPv4len
                   \/ Len(dst.IP) = IPv4len
                THEN AF_INET ELSE AF_INET6]

LinkIndexes == {1, 2}

\* The host at the moment Monitor is called: lo and eth0, both up.
InitLinks ==
    (1 :> [Name |-> "lo", Flags |-> {IFF_UP, IFF_LOOPBACK}]) @@
    (2 :> [Name |-> "eth0", Flags |-> {IFF_UP, IFF_BROADCAST, IFF_MULTICAST}])

InitAddrs ==
    (1 :> <<Addr(V4Loop, 8, 0), Addr(V6Loop, 128, 0)>>) @@
    (2 :> <<Addr(V4Host, 24, 3600), Addr(V6LL, 64, 0), Addr(V4Mcast, 32, 0)>>)

RouteDefault == Rt(NoDst, V4Gw, NoIP, SCOPE_UNIVERSE, RT_TABLE_MAIN, 2, 100, 16)
RouteConnected == Rt(Net(V4Net, 24), NoIP, V4Host, SCOPE_LINK, RT_TABLE_MAIN, 2, 0, 2)
RouteLocal == Rt(Net(V4Host, 32), NoIP, V4Host, SCOPE_HOST, RT_TABLE_LOCAL, 2, 0, 2)
RouteLinkLocal == Rt(Net(V6LLNet, 64), NoIP, NoIP, SCOPE_UNIVERSE, RT_TABLE_MAIN, 2, 256, 2)

InitRoutes == <<RouteDefault, RouteConnected, RouteLocal, RouteLinkLocal>>

\* What the environment may add to or remove from eth0 while Monitor runs.
AddrPool == {Addr(V6ULA, 64, 0)}

RouteDefault2 == Rt(NoDst, V4Gw2, V4Host, SCOPE_UNIVERSE, RT_TABLE_MAIN, 2, 50, 4)
RoutePolicy == Rt(Net(V4Other, 24), V4Gw, NoIP, SCOPE_UNIVERSE, RT_TABLE_POLICY, 2, 0, 4)
RouteHostMain == Rt(Net(V4Other, 24), NoIP, NoIP, SCOPE_HOST, RT_TABLE_MAIN, 2, 0, 4)

RoutePool == {RouteDefault2, RoutePolicy, RouteHostMain}

\* ifi_change masks of the link records the environment produces for eth0.
ChangePool == {{IFF_PROMISC}, {IFF_UP, IFF_PROMISC}}

\* The kernel configurations MarshalEnv is tried on: the addresses of eth0
\* are a list of up to MaxEnvAddrs of these, the routes one of these lists.
V4Host2 == <<192, 0, 2, 7>>

EnvAddrPool ==
    {Addr(V4Host, 24, 3600), Addr(V4Host2, 24, 0), Addr(V4LL, 16, 0),
     Addr(V6LL, 64, 0), Addr(V6ULA, 64, 0), Addr(V6Glob, 64, 7200)}

EnvAddrLists ==
    {s \in UNION {[1..n -> EnvAddrPool] : n \in 0..MaxEnvAddrs} :
         \A i, j \in 1..Len(s) : i # j => s[i] # s[j]}

EnvDefault100 == Rt(NoDst, V4Gw, NoIP, SCOPE_UNIVERSE, RT_TABLE_MAIN, 2, 100, 4)
EnvDefaultTie == Rt(NoDst, V4Gw, NoIP, SCOPE_UNIVERSE, RT_TABLE_MAIN, 2, 50, 4)
EnvDefault6 == Rt(NoDst, V6LL, NoIP, SCOPE_UNIVERSE, RT_TABLE_MAIN, 2, 1024, 9)
EnvDefault6Static == Rt(NoDst, V6LL, NoIP, SCOPE_UNIVERSE, RT_TABLE_MAIN, 2, 1024, 4)
EnvDefault6Custom == Rt(NoDst, V6LL, V6Glob, SCOPE_UNIVERSE, RT_TABLE_MAIN, 2, 1024, 6)

EnvRouteLists ==
    {<<>>,
     <<EnvDefault100, RouteDefault2>>,
     <<RouteDefault2, EnvDefault100>>,
     <<RouteDefault2, EnvDefaultTie>>,
     <<EnvDefaultTie, RouteDefault2>>,
     <<RouteDefault, RouteConnected>>,
     <<EnvDefault6>>,
     <<EnvDefault6Static>>,
     <<EnvDefault6Custom, RouteDefault2>>}

SeqRemove(s, x) == SelectSeq(s, LAMBDA y : y # x)

SeqHas(s, x) == \E i \in 1..Len(s) : s[i] = x

VARIABLES
    \* the kernel: links by index, addresses by link index, the route list
    kLinks, kAddrs, kRoutes,
    \* environment events so far, and per subscription the number of
    \* records the kernel has produced for it
    events, seq,
    \* per subscription: records waiting in the netlink socket, and the
    \* one-slot channel Monitor made for it
    sock, ch,
    \* per subscription: "none", "live", or "closed" once its goroutine has
    \* ended and closed the channel
    sub,
    \* the done channel is closed (Monitor's deferred close(done))
    done,
    \* Monitor: position, returned error, the loop's lastUpdate
    pc, err, lastUpdate,
    \* the ticker: the interval argument, whether tmr != nil, time to the
    \* next tick, ticks waiting in tmr.C, and whether the runtime keeps a
    \* tick that was sent before Reset (timer channels before Go 1.23)
    interval, tmr, tmrLeft, tmrC, asyncTimerChan,
    \* ctx.Done() is closed
    cancelled,
    \* the handler fn: invocations in progress, position, the update
    \* passed to it, what called it
    inflight, hpc, upd, cause,
    \* ipmond: a command was given, -j, rdy, how cmd.Start ended in the
    \* running call ("no" before it)
    cmdName, flgJson, rdy, started,
    \* the list MarshalEnv returned for upd (<<>> before the call)
    env,
    \* observation: the number of calls with Type init (at most 2 are
    \* counted), the Type of the first call, per channel the Ids of the
    \* records the handler was called for, and the seconds since the handler
    \* was last called for a record (counted up to interval)
    inits, first, delivered, age

vars ==
    <<kLinks, kAddrs, kRoutes, events, seq, sock, ch, sub, done, pc, err,
      lastUpdate, interval, tmr, tmrLeft, tmrC, asyncTimerChan, cancelled,
      inflight, hpc, upd, cause, cmdName, flgJson, rdy, started, env,
      inits, first, delivered, age>>

kernelVars == <<kLinks, kAddrs, kRoutes>>
timerVars == <<tmr, tmrLeft, tmrC>>
handlerVars == <<inflight, hpc, upd, cause, rdy, started>>
chanVars == <<seq, sock, ch, sub>>
obsVars == <<inits, first, delivered>>
configVars == <<interval, asyncTimerChan, cmdName, flgJson>>

(* ------------------------------ genUpdate ----------------------------- *)

\* The Update struct as genUpdate leaves it.
EmptyUpdate ==
    [Type |-> "", Change |-> <<>>, Link |-> "", Address |-> NoAddress,
     Gateway |-> EmptyString, Source |-> EmptyString,
     Routes |-> <<>>, Interfaces |-> <<>>]

KeepAddrNotLoopback(addr) == ~IsLoopback(addr.IP)

\* genUpdate's address filter.
KeepAddr(addr) == IsGlobalUnicast(addr.IP) \/ IsLinkLocalUnicast(addr.IP)

MkAddress(addr) ==
    [Address |-> IPString(addr.IP), CIDR |-> addr.Bits, N |-> addr]

KeepRouteAnyDst(route) ==
    /\ route.Scope \in {SCOPE_UNIVERSE, SCOPE_LINK}
    /\ route.Table = RT_TABLE_MAIN

\* genUpdate's route filter.
KeepRoute(route) ==
    /\ route.Scope \in {SCOPE_UNIVERSE, SCOPE_LINK}
    /\ ~(route.Dst # NoDst /\ IsLinkLocalUnicast(route.Dst.IP))
    /\ route.Table = RT_TABLE_MAIN

\* lnkIdx[i]: the name of link i, "" for an index LinkList did not return.
lnkIdx(i) == IF i \in DOMAIN kLinks THEN kLinks[i].Name ELSE ""

MkRoute(route) ==
    [route |-> route,
     Destination |-> IF route.Dst # NoDst THEN IPNetString(route.Dst)
                     ELSE DefaultString,
     Gateway |-> IF route.Gw # NoIP THEN IPString(route.Gw) ELSE EmptyString,
     Src |-> IF route.Src # NoIP THEN IPString(route.Src) ELSE EmptyString,
     Link |-> lnkIdx(route.LinkIndex)]

\* upd.Interfaces: every link by name, with its kept addresses.
genInterfaces ==
    [n \in {kLinks[i].Name : i \in DOMAIN kLinks} |->
        LET i == CHOOSE j \in DOMAIN kLinks : kLinks[j].Name = n
            kept == SelectSeq(kAddrs[i], KeepAddr)
        IN  [Up |-> HasBit(kLinks[i].Flags, IFF_UP),
             Addr |-> [k \in 1..Len(kept) |-> MkAddress(kept[k])]]]

\* upd.Routes: the kept routes, in RouteList order.
genRoutes ==
    LET kept == SelectSeq(kRoutes, KeepRoute)
    IN  [k \in 1..Len(kept) |-> MkRoute(kept[k])]

\* nil, as the argument of genUpdate.
IsNil(last) == DOMAIN last = {}

genUpdateCached(last) ==
    IF IsNil(last)
    THEN [EmptyUpdate EXCEPT !.Interfaces = genInterfaces, !.Routes = genRoutes]
    ELSE [EmptyUpdate EXCEPT !.Interfaces = last.Interfaces,
                             !.Routes = last.Routes]

genUpdateOnLast(last) ==
    [(IF IsNil(last) THEN EmptyUpdate ELSE last)
        EXCEPT !.Interfaces = genInterfaces, !.Routes = genRoutes]

\* genUpdate(last): a fresh Update from the kernel; last is not read.
genUpdate(last) ==
    [EmptyUpdate EXCEPT !.Interfaces = genInterfaces, !.Routes = genRoutes]

(* ---------------------------- Update Deriver -------------------------- *)

\* netlink.LinkByIndex(i): the link's name, "" when there is none.
LinkByIndex(i) == IF i \in DOMAIN kLinks THEN kLinks[i].Name ELSE ""

\* u.addrUpdate(a): the annotated update and the returned bool.
addrUpdate(u, a) ==
    [u |-> [u EXCEPT !.Type = "address",
                     !.Address = [Address |-> IPString(a.LinkAddress.IP),
                                  CIDR |-> a.LinkAddress.Bits],
                     !.Link = IF LinkByIndex(a.LinkIndex) # ""
                              THEN LinkByIndex(a.LinkIndex) ELSE u.Link,
                     !.Change = IF a.NewAddr THEN <<"add">> ELSE <<"delete">>],
     notable |-> TRUE]

testFlag(a, b, c, add, delete) ==
    IF ~HasBit(a, c) THEN <<>>
    ELSE IF ~HasBit(b, c) THEN <<delete>>
    ELSE <<add>>

linkNotableByFlags(a) == HasBit(a.Flags, IFF_UP)

\* The return value of linkUpdate.
linkNotable(a) == HasBit(a.Change, IFF_UP)

\* u.linkUpdate(a)
linkUpdate(u, a) ==
    [u |-> [u EXCEPT !.Type = "link",
                     !.Link = IF a.Name # "" THEN a.Name ELSE u.Link,
                     !.Change =
                         u.Change
                         \o testFlag(a.Change, a.Flags, IFF_UP, "up", "down")
                         \o testFlag(a.Change, a.Flags, IFF_PROMISC, "promisc", "nopromisc")
                         \o testFlag(a.Change, a.Flags, IFF_NOARP, "noarp", "arp")
                         \o testFlag(a.Change, a.Flags, IFF_BROADCAST, "broadcast", "nobroadcast")
                         \o testFlag(a.Change, a.Flags, IFF_LOOPBACK, "loopback", "noloopback")
                         \o testFlag(a.Change, a.Flags, IFF_POINTOPOINT, "pointtopoint", "nopointtopoint")
                         \o testFlag(a.Change, a.Flags, IFF_MULTICAST, "multicast", "nomulticast")],
     notable |-> linkNotable(a)]

\* The Type routeUpdate sets.
routeType(a) == IF a.Dst # NoDst THEN "route" ELSE "default_route"

routeNotableAnyTable(a) == a.Scope \in {SCOPE_UNIVERSE, SCOPE_LINK}

\* The return value of routeUpdate.
routeNotable(a) ==
    /\ a.Scope \in {SCOPE_UNIVERSE, SCOPE_LINK}
    /\ a.Table = RT_TABLE_MAIN

\* u.routeUpdate(a)
routeUpdate(u, a) ==
    [u |-> [u EXCEPT !.Type = routeType(a),
                     !.Address = IF a.Dst # NoDst
                                 THEN [Address |-> IPString(a.Dst.IP),
                                       CIDR |-> a.Dst.Bits]
                                 ELSE u.Address,
                     !.Gateway = IF a.Gw # NoIP THEN IPString(a.Gw) ELSE u.Gateway,
                     !.Source = IF a.Src # NoIP THEN IPString(a.Src) ELSE u.Source,
                     !.Link = IF LinkByIndex(a.ILinkIndex) # ""
                              THEN LinkByIndex(a.ILinkIndex) ELSE u.Link,
                     !.Change = IF a.Type = RTM_NEWROUTE THEN <<"add">>
                                ELSE IF a.Type = RTM_DELROUTE THEN <<"delete">>
                                ELSE u.Change],
     notable |-> routeNotable(a)]

(* ----------------------------- MarshalEnv ----------------------------- *)

\* "KEY_<n>=<value>"
Entry(key, n, value) == key \o Ascii(n) \o ChEq \o value

SkipPrivateNever(ip) == FALSE

\* The IPv6 addresses MarshalEnv passes over: if ip.IsPrivate() { continue }
SkipPrivate(ip) == IsPrivate(ip)

\* The entries of one address a of interface n.
AddrEnv(n, a) ==
    LET ip == ParseIP(a.Address)
        ll == IF ~IsLinkLocalUnicast(ip) THEN <<>>
              ELSE IF To4(ip) # NoIP
              THEN <<Entry(S_LL_IPV4_, n, Text(a.Address))>>
              ELSE IF To16(ip) # NoIP
              THEN <<Entry(S_LL_IPV6_, n, Text(a.Address))>>
              ELSE <<>>
        ttl4 == IF a.N.ValidLft > 0
                THEN <<Entry(S_IPV4_TTL_, n, Dec(a.N.ValidLft))>> ELSE <<>>
        ttl6 == IF a.N.ValidLft > 0
                THEN <<Entry(S_IPV6_TTL_, n, Dec(a.N.ValidLft))>> ELSE <<>>
        gl == IF ~IsGlobalUnicast(ip) THEN <<>>
              ELSE IF To4(ip) # NoIP
              THEN ttl4 \o <<Entry(S_IPV4_, n, Text(a.Address)),
                             Entry(S_IPV4_MASK_, n, Dec(a.CIDR))>>
              ELSE IF To16(ip) # NoIP
              THEN IF SkipPrivate(ip) THEN <<>>
                   ELSE ttl6 \o <<Entry(S_IPV6_, n, Text(a.Address)),
                                  Entry(S_IPV6_MASK_, n, Dec(a.CIDR))>>
              ELSE <<>>
    IN  ll \o gl

\* The entries of the addresses addrs of interface n, in order.
RECURSIVE AddrsEnv(_, _)
AddrsEnv(n, addrs) ==
    IF addrs = <<>> THEN <<>>
    ELSE AddrEnv(n, Head(addrs)) \o AddrsEnv(n, Tail(addrs))

\* One round of "for n, inf := range u.Interfaces".
InterfaceEnv(n, inf) ==
    AddrsEnv(n, inf.Addr)
        \o <<Entry(S_UP_, n, IF inf.Up THEN ChOne ELSE ChZero)>>

\* The range over the map, which visits the interfaces in the order order.
RECURSIVE InterfacesEnv(_, _)
InterfacesEnv(u, order) ==
    IF order = <<>> THEN <<>>
    ELSE InterfaceEnv(Head(order), u.Interfaces[Head(order)])
             \o InterfacesEnv(u, Tail(order))

\* The orders a range over u.Interfaces can take.
Orders(u) ==
    LET S == DOMAIN u.Interfaces
    IN  {o \in [1..Cardinality(S) -> S] :
             \A i, j \in 1..Cardinality(S) : i # j => o[i] # o[j]}

\* case 4: and case 6: of the switch.
CaseIPv4 == 4
CaseIPv6 == 6

\* What the switch over a route without destination looks at.
DefRouteSwitch(route) == route.Protocol

\* defRouteIPv4 or defRouteIPv6 after the routes from i on, as an index into
\* routes (0 for nil), cur being its value before them.
RECURSIVE DefRouteFrom(_, _, _, _)
DefRouteFrom(routes, i, cur, case) ==
    IF i > Len(routes) THEN cur
    ELSE LET r == routes[i]
             take == /\ r.route.Dst = NoDst
                     /\ DefRouteSwitch(r.route) = case
                     /\ \/ cur = 0
                        \/ r.route.Priority < routes[cur].route.Priority
         IN  DefRouteFrom(routes, i + 1, IF take THEN i ELSE cur, case)

DefRoute(routes, case) == DefRouteFrom(routes, 1, 0, case)

\* The entries for defRouteIPv4.
DefRouteEnv4(u) ==
    LET k == DefRoute(u.Routes, CaseIPv4)
        r == u.Routes[k]
    IN  IF k = 0 THEN <<>>
        ELSE (IF To4(r.route.Src) # NoIP
              THEN <<S_IPV4 \o Text(IPString(To4(r.route.Src)))>> ELSE <<>>)
             \o <<S_IPV4_IF \o Ascii(r.Link)>>
             \o (IF r.route.Gw # NoIP
                 THEN <<S_IPV4_GW \o Text(IPString(r.route.Gw))>> ELSE <<>>)

\* The entries for defRouteIPv6.
DefRouteEnv6(u) ==
    LET k == DefRoute(u.Routes, CaseIPv6)
        r == u.Routes[k]
    IN  IF k = 0 THEN <<>>
        ELSE (IF To16(r.route.Src) # NoIP
              THEN <<S_IPV6 \o Text(IPString(To16(r.route.Src)))>> ELSE <<>>)
             \o <<S_IPV6_IF \o Ascii(r.Link)>>
             \o (IF r.route.Gw # NoIP
                 THEN <<S_IPV6_GW \o Text(IPString(r.route.Gw))>> ELSE <<>>)

\* env before sort.Strings, the map being ranged over in the order order.
EnvUnsorted(u, order) ==
    <<S_TYPE \o Ascii(u.Type)>>
    \o (IF Len(u.Change) > 0 THEN <<S_CHANGE \o Ascii(u.Change[1])>> ELSE <<>>)
    \o (IF u.Address # NoAddress
        THEN <<S_ADDR \o Text(u.Address.Address), S_MASK \o Dec(u.Address.CIDR)>>
        ELSE <<>>)
    \o (IF u.Gateway # EmptyString THEN <<S_GW \o Text(u.Gateway)>> ELSE <<>>)
    \o (IF u.Source # EmptyString THEN <<S_SRC \o Text(u.Source)>> ELSE <<>>)
    \o InterfacesEnv(u, order)
    \o (IF u.Link # "" THEN <<S_LINK \o Ascii(u.Link)>> ELSE <<>>)
    \o DefRouteEnv4(u)
    \o DefRouteEnv6(u)

SortEnvNot(e) == e

\* sort.Strings(env); return env
SortEnv(e) == SortStrings(e)

\* u.MarshalEnv()
MarshalEnv(u, order) == SortEnv(EnvUnsorted(u, order))

(* ------------------------------- Init --------------------------------- *)

Cats == {"neighbor", "address", "route", "link"}

\* The order Monitor subscribes in.
SubOrder == <<"neighbor", "address", "route", "link">>

\* make(chan ..., 1)
ChanCap == 1

\* The neighbor entries replayed at subscription (ListExisting: true): the
\* host's neighbor table starts empty.
ExistingNeighbors == <<>>

\* The runs tried: ipmond's command (and -j with it) without a ticker,
\* and a handler that only logs with every interval; the timer-channel
\* semantics are drawn where there is a ticker.
Init ==
    /\ kLinks = InitLinks
    /\ kAddrs = InitAddrs
    /\ kRoutes = InitRoutes
    /\ events = 0
    /\ seq = [c \in Cats |-> 0]
    /\ sock = [c \in Cats |-> <<>>]
    /\ ch = [c \in Cats |-> <<>>]
    /\ sub = [c \in Cats |-> "none"]
    /\ done = FALSE
    /\ pc = "start"
    /\ err = "unset"
    /\ lastUpdate = EmptyUpdate
    /\ interval \in Intervals
    /\ tmr = FALSE
    /\ tmrLeft = 0
    /\ tmrC = 0
    /\ asyncTimerChan \in IF interval > 0 THEN BOOLEAN ELSE {TRUE}
    /\ cancelled = FALSE
    /\ inflight = 0
    /\ hpc = "idle"
    /\ upd = EmptyUpdate
    /\ cause = "none"
    /\ cmdName \in IF interval = 0 THEN BOOLEAN ELSE {FALSE}
    /\ flgJson \in IF cmdName THEN BOOLEAN ELSE {FALSE}
    /\ rdy = FALSE
    /\ started = "no"
    /\ env = <<>>
    /\ inits = 0
    /\ first = ""
    /\ delivered = [c \in Cats |-> <<>>]
    /\ age = 0

(* ---------------------------- environment ----------------------------- *)

Running == pc \notin {"start", "returned"}

\* A record queued on subscription c, if it is live; Id numbers the
\* records of a subscription in the order the kernel produced them.
Queue(c, rec) ==
    /\ seq' = [seq EXCEPT ![c] = @ + 1]
    /\ sock' = IF sub[c] = "live"
               THEN [sock EXCEPT ![c] = Append(@, [Id |-> seq[c] + 1] @@ rec)]
               ELSE sock

\* An address of AddrPool is added to eth0, or removed from it.
AddrChange(a) ==
    /\ Running
    /\ events < MaxEvents
    /\ events' = events + 1
    /\ kAddrs' = [kAddrs EXCEPT ![2] = IF SeqHas(@, a) THEN SeqRemove(@, a)
                                       ELSE Append(@, a)]
    /\ Queue("address", [LinkAddress |-> Net(a.IP, a.Bits),
                         LinkIndex |-> 2, NewAddr |-> ~SeqHas(kAddrs[2], a)])
    /\ UNCHANGED <<kLinks, kRoutes, ch, sub, done, pc, err, lastUpdate,
                   timerVars, configVars, env, cancelled, handlerVars, obsVars, age>>

\* eth0's flags change by mask m.
LinkChange(m) ==
    /\ Running
    /\ events < MaxEvents
    /\ events' = events + 1
    /\ kLinks' = [kLinks EXCEPT ![2].Flags = Xor(@, m)]
    /\ Queue("link", [Change |-> m,
                      Flags |-> kLinks'[2].Flags, Name |-> kLinks[2].Name])
    /\ UNCHANGED <<kAddrs, kRoutes, ch, sub, done, pc, err, lastUpdate,
                   timerVars, configVars, env, cancelled, handlerVars, obsVars, age>>

\* A route of RoutePool is added or removed.
RouteChange(r) ==
    /\ Running
    /\ events < MaxEvents
    /\ events' = events + 1
    /\ kRoutes' = IF SeqHas(kRoutes, r) THEN SeqRemove(kRoutes, r)
                  ELSE Append(kRoutes, r)
    /\ Queue("route", [Type |-> IF SeqHas(kRoutes, r) THEN RTM_DELROUTE
                                ELSE RTM_NEWROUTE] @@ r)
    /\ UNCHANGED <<kLinks, kAddrs, ch, sub, done, pc, err, lastUpdate,
                   timerVars, configVars, env, cancelled, handlerVars, obsVars, age>>

\* The neighbor table changes.
NeighChange ==
    /\ Running
    /\ events < MaxEvents
    /\ events' = events + 1
    /\ Queue("neighbor", [Type |-> "neigh"])
    /\ UNCHANGED <<kernelVars, ch, sub, done, pc, err, lastUpdate,
                   timerVars, configVars, env, cancelled, handlerVars, obsVars, age>>

\* The subscription's goroutine sends its next record into the channel; it
\* blocks while the channel is full.
Forward(c) ==
    /\ ~done
    /\ sub[c] = "live"
    /\ sock[c] # <<>>
    /\ Len(ch[c]) < ChanCap
    /\ ch' = [ch EXCEPT ![c] = Append(@, Head(sock[c]))]
    /\ sock' = [sock EXCEPT ![c] = Tail(@)]
    /\ UNCHANGED <<kernelVars, events, seq, sub, done, pc, err, lastUpdate,
                   timerVars, configVars, env, cancelled, handlerVars, obsVars, age>>

\* The subscription's goroutine ends on a receive error and closes the
\* channel.
SubFail(c) ==
    /\ Running
    /\ events < MaxEvents
    /\ events' = events + 1
    /\ sub[c] = "live"
    /\ sub' = [sub EXCEPT ![c] = "closed"]
    /\ sock' = [sock EXCEPT ![c] = <<>>]
    /\ UNCHANGED <<kernelVars, seq, ch, done, pc, err, lastUpdate,
                   timerVars, configVars, env, cancelled, handlerVars, obsVars, age>>

\* The caller cancels ctx.
Cancel ==
    /\ pc # "returned"
    /\ ~cancelled
    /\ cancelled' = TRUE
    /\ UNCHANGED <<kernelVars, events, chanVars, done, pc, err, lastUpdate,
                   timerVars, configVars, env, handlerVars, obsVars, age>>

\* One second passes; the ticker sends a tick when its period has run out,
\* and drops it when one is still waiting in tmr.C.
Tick ==
    /\ tmr
    /\ tmrLeft' = IF tmrLeft = 1 THEN interval ELSE tmrLeft - 1
    /\ tmrC' = IF tmrLeft = 1 THEN 1 ELSE tmrC
    /\ age' = IF age < interval THEN age + 1 ELSE age
    /\ UNCHANGED <<kernelVars, events, chanVars, done, pc, err, lastUpdate,
                   tmr, configVars, env, cancelled, handlerVars, obsVars>>

(* ------------------------------ Monitor ------------------------------- *)

CallPcAsync == "select"

\* Where Monitor is while fn runs: the call is synchronous.
CallPc == "handler"

\* The channel a call of this Type is for.
CatOf(type) ==
    IF type = "address" THEN "address"
    ELSE IF type = "link" THEN "link"
    ELSE "route"

\* fn(u): the handler is entered; the call is noted.
Call(u, why, id) ==
    /\ upd' = u
    /\ cause' = why
    /\ hpc' = "entry"
    /\ inflight' = inflight + 1
    /\ pc' = CallPc
    /\ inits' = IF u.Type = "init" /\ inits < 2 THEN inits + 1 ELSE inits
    /\ first' = IF first = "" THEN u.Type ELSE first
    /\ delivered' = IF why = "record"
                    THEN [delivered EXCEPT ![CatOf(u.Type)] = Append(@, id)]
                    ELSE delivered
    /\ UNCHANGED started

\* tmr.Reset(interval): the next tick is a full period away.  A tick already
\* sent stays in tmr.C when the runtime's timer channel is buffered.
ResetKeeps == asyncTimerChan

Reset ==
    /\ tmrLeft' = interval
    /\ tmrC' = IF ResetKeeps THEN tmrC ELSE 0
    /\ tmr' = tmr

\* The four subscriptions succeed; the init update is built and passed to fn.
SubscribeOk ==
    /\ pc = "start"
    /\ sub' = [c \in Cats |-> "live"]
    /\ sock' = [sock EXCEPT !["neighbor"] = ExistingNeighbors]
    /\ lastUpdate' = [genUpdate(<<>>) EXCEPT !.Type = "init"]
    /\ Call(lastUpdate', "init", 0)
    /\ UNCHANGED <<kernelVars, events, seq, ch, done, err, timerVars, configVars, env,
                   cancelled, rdy, age>>

\* Subscription f fails: Monitor returns the error; the deferred close(done)
\* ends the subscriptions made before it.
SubscribeFail(f) ==
    /\ pc = "start"
    /\ sub' = [c \in Cats |->
                 IF \E i, j \in 1..Len(SubOrder) :
                        SubOrder[i] = c /\ SubOrder[j] = f /\ i < j
                 THEN "closed" ELSE "none"]
    /\ pc' = "returned"
    /\ err' = "error"
    /\ done' = TRUE
    /\ UNCHANGED <<kernelVars, events, seq, sock, ch, lastUpdate, timerVars,
                   configVars, env, cancelled, handlerVars, obsVars, age>>

\* return e, with the deferred tmr.Stop() and close(done).
ReturnWith(e) ==
    /\ pc' = "returned"
    /\ err' = e
    /\ done' = TRUE
    /\ tmr' = FALSE
    /\ UNCHANGED <<tmrLeft, tmrC>>

CancelNeverReady == FALSE

\* ctx.Done() is ready in the select.
CancelReady == cancelled

\* case <-ctx.Done(): return nil
SelectCancel ==
    /\ pc = "select"
    /\ CancelReady
    /\ ReturnWith("nil")
    /\ UNCHANGED <<kernelVars, events, chanVars, lastUpdate, configVars, env,
                   cancelled, handlerVars, obsVars, age>>

AfterSuppressedReset == IF tmr THEN Reset ELSE UNCHANGED timerVars

\* What a record that is not notable does to the ticker: tmr.Reset is inside
\* the if, so nothing.
AfterSuppressed == UNCHANGED timerVars

\* A record of channel c is received and derived into res; fn is called
\* when it is notable.
Received(c, res) ==
    /\ ch' = [ch EXCEPT ![c] = Tail(@)]
    /\ lastUpdate' = res.u
    /\ IF res.notable
       THEN /\ Call(res.u, "record", Head(ch[c]).Id)
            /\ age' = 0
            /\ UNCHANGED <<rdy, timerVars>>
       ELSE /\ AfterSuppressed
            /\ UNCHANGED <<pc, handlerVars, obsVars, age>>
    /\ UNCHANGED <<kernelVars, events, seq, sock, sub, done, err,
                   configVars, env, cancelled>>

\* case a, op := <-addrUpd, with op true
RecvAddr ==
    /\ pc = "select"
    /\ ch["address"] # <<>>
    /\ Received("address", addrUpdate(genUpdate(lastUpdate), Head(ch["address"])))

\* case l, op := <-linkUpd, with op true
RecvLink ==
    /\ pc = "select"
    /\ ch["link"] # <<>>
    /\ Received("link", linkUpdate(genUpdate(lastUpdate), Head(ch["link"])))

\* case r, op := <-routeUpd, with op true
RecvRoute ==
    /\ pc = "select"
    /\ ch["route"] # <<>>
    /\ Received("route", routeUpdate(genUpdate(lastUpdate), Head(ch["route"])))

\* The channels the select reads.
Selected == {"address", "link", "route"}

ClosedResultError == "error"

\* What Monitor returns when a receive finds its channel closed: nil.
ClosedResult == "nil"

\* A receive with op false: the channel is closed and drained.
RecvClosed(c) ==
    /\ pc = "select"
    /\ c \in Selected
    /\ sub[c] = "closed"
    /\ ch[c] = <<>>
    /\ ReturnWith(ClosedResult)
    /\ UNCHANGED <<kernelVars, events, chanVars, lastUpdate, configVars, env,
                   cancelled, handlerVars, obsVars, age>>

TickTypeInit == "init"

\* The Type of the update built for a timer tick.
TickType == "interval"

TickLastUpdateAssigned(fresh) == fresh

\* The loop's lastUpdate after a tick: "lastUpdate := genUpdate(nil)"
\* declares a variable of its own for the fresh update, the loop's stays.
TickLastUpdate(fresh) == lastUpdate

\* case <-tmrCh: a fresh update of Type interval is passed to fn.
SelectTick ==
    /\ pc = "select"
    /\ tmrC > 0
    /\ tmrC' = tmrC - 1
    /\ Call([genUpdate(<<>>) EXCEPT !.Type = TickType], "tick", 0)
    /\ lastUpdate' = TickLastUpdate(upd')
    /\ UNCHANGED <<kernelVars, events, chanVars, done, err, tmr,
                   tmrLeft, configVars, env, cancelled, rdy, age>>

(* ---------------------------- the handler ----------------------------- *)

\* fn returns; Monitor goes on after the call: the ticker is made after the
\* init call, and reset after a call for a record.
Return ==
    /\ hpc' = "idle"
    /\ inflight' = inflight - 1
    /\ upd' = EmptyUpdate
    /\ cause' = "none"
    /\ started' = "no"
    /\ pc' = "select"
    /\ IF cause = "init"
       THEN /\ tmr' = (interval > 0)
            /\ tmrLeft' = IF interval > 0 THEN interval ELSE 0
            /\ tmrC' = 0
       ELSE IF cause = "record" /\ tmr
       THEN Reset
       ELSE UNCHANGED timerVars

\* Someone reads pr: the copying goroutine a successful cmd.Start made.
PipeHasReader(st) == st = "ok"

\* The closure up to its first blocking call: Status and Ready on the first
\* call, the log line, and without a command that is all.  With one,
\* cmd.Start() succeeds (the child runs, a goroutine copies pr to its stdin)
\* or fails (the error is logged).  With -j the closure is then in
\* je.Encode; without it, after pw.Close(), it is in cmd.Wait(), which
\* returns an error at once when the command never started.
HandlerEntry(ok) ==
    /\ hpc = "entry"
    /\ rdy' = TRUE
    /\ IF ~cmdName
       THEN ok /\ Return
       ELSE IF flgJson
       THEN /\ started' = IF ok THEN "ok" ELSE "failed"
            /\ hpc' = "encode"
            /\ UNCHANGED <<inflight, pc, timerVars, upd, cause>>
       ELSE IF ok
       THEN /\ started' = "ok"
            /\ hpc' = "wait"
            /\ UNCHANGED <<inflight, pc, timerVars, upd, cause>>
       ELSE Return
    /\ UNCHANGED <<kernelVars, events, chanVars, done, err, lastUpdate,
                   configVars, env, cancelled, obsVars, age>>

\* je.Encode(upd): the write to pw returns once pr's reader has taken it;
\* then pw.Close(), and the closure is in cmd.Wait().
JsonEncode ==
    /\ hpc = "encode"
    /\ PipeHasReader(started)
    /\ hpc' = "wait"
    /\ UNCHANGED <<kernelVars, events, chanVars, done, pc, err, lastUpdate,
                   timerVars, configVars, env, cancelled, inflight, upd, cause,
                   rdy, started, obsVars, age>>

\* The child ends, with or without an error: cmd.Wait() returns, an error
\* is logged, and the closure returns.
ChildExit(ok) ==
    /\ hpc = "wait"
    /\ started = "ok"
    /\ Return
    /\ UNCHANGED <<kernelVars, events, chanVars, done, err, lastUpdate,
                   configVars, env, cancelled, rdy, obsVars, age>>

(* ------------------------------- Next --------------------------------- *)

Next ==
    \/ SubscribeOk
    \/ \E f \in Cats : SubscribeFail(f)
    \/ SelectCancel
    \/ RecvAddr
    \/ RecvLink
    \/ RecvRoute
    \/ \E c \in Selected : RecvClosed(c)
    \/ SelectTick
    \/ \E ok \in BOOLEAN : HandlerEntry(ok)
    \/ JsonEncode
    \/ \E ok \in BOOLEAN : ChildExit(ok)
    \/ \E a \in AddrPool : AddrChange(a)
    \/ \E m \in ChangePool : LinkChange(m)
    \/ \E r \in RoutePool : RouteChange(r)
    \/ NeighChange
    \/ \E c \in Cats : Forward(c)
    \/ \E c \in Cats : SubFail(c)
    \/ Cancel
    \/ Tick

Spec == Init /\ [][Next]_vars

\* Monitor leaves its first lines, whichever way the subscriptions go.
Start == SubscribeOk \/ \E f \in Cats : SubscribeFail(f)

\* The handler's next step, where it does not wait for the child.
HandlerStep ==
    \/ \E ok \in BOOLEAN : HandlerEntry(ok)
    \/ JsonEncode

\* Monitor and the handler run when they can; a select that keeps finding
\* ctx.Done() ready picks it in the end, as Go's select chooses at random
\* among the ready cases.
FairSpec ==
    /\ Spec
    /\ WF_vars(Start)
    /\ WF_vars(HandlerStep)
    /\ SF_vars(SelectCancel)

(* ------------------------ MarshalEnv on its own ----------------------- *)

\* ipmond with a command, on a host whose eth0 has any of the address lists
\* and whose route list is any of the route lists.
EnvInit ==
    /\ kLinks = InitLinks
    /\ kAddrs \in {[InitAddrs EXCEPT ![2] = s] : s \in EnvAddrLists}
    /\ kRoutes \in EnvRouteLists
    /\ events = 0
    /\ seq = [c \in Cats |-> 0]
    /\ sock = [c \in Cats |-> <<>>]
    /\ ch = [c \in Cats |-> <<>>]
    /\ sub = [c \in Cats |-> "live"]
    /\ done = FALSE
    /\ pc = "select"
    /\ err = "unset"
    /\ lastUpdate = EmptyUpdate
    /\ interval = 0
    /\ tmr = FALSE
    /\ tmrLeft = 0
    /\ tmrC = 0
    /\ asyncTimerChan = TRUE
    /\ cancelled = FALSE
    /\ inflight = 0
    /\ hpc = "idle"
    /\ upd = EmptyUpdate
    /\ cause = "none"
    /\ cmdName = TRUE
    /\ flgJson = FALSE
    /\ rdy = FALSE
    /\ started = "no"
    /\ env = <<>>
    /\ inits = 0
    /\ first = ""
    /\ delivered = [c \in Cats |-> <<>>]
    /\ age = 0

\* The updates Monitor can pass to the handler on this host: the init
\* update, and the update for a record of eth0's last address or of the
\* last route.
EnvUpdates ==
    {[genUpdate(<<>>) EXCEPT !.Type = "init"]}
    \cup {addrUpdate(genUpdate(<<>>),
                     [LinkAddress |-> Net(kAddrs[2][i].IP, kAddrs[2][i].Bits),
                      LinkIndex |-> 2, NewAddr |-> TRUE]).u :
              i \in {Len(kAddrs[2])} \ {0}}
    \cup {routeUpdate(genUpdate(<<>>),
                      [Type |-> RTM_NEWROUTE] @@ kRoutes[i]).u :
              i \in {Len(kRoutes)} \ {0}}

\* The handler is called with u.
EnvCall(u) ==
    /\ hpc = "idle"
    /\ hpc' = "entry"
    /\ upd' = u
    /\ pc' = CallPc
    /\ inflight' = inflight + 1
    /\ UNCHANGED <<kernelVars, events, chanVars, done, err, lastUpdate,
                   timerVars, configVars, cancelled, cause, rdy, started,
                   env, obsVars, age>>

\* newEnv := upd.MarshalEnv(), the range over the map taking the order o.
EnvMarshal(o) ==
    /\ hpc \in {"entry", "env"}
    /\ cmdName
    /\ hpc' = "env"
    /\ env' = MarshalEnv(upd, o)
    /\ UNCHANGED <<kernelVars, events, chanVars, done, pc, err, lastUpdate,
                   timerVars, configVars, cancelled, inflight, upd, cause,
                   rdy, started, obsVars, age>>

EnvNext ==
    \/ \E u \in EnvUpdates : EnvCall(u)
    \/ \E o \in Orders(upd) : EnvMarshal(o)

EnvSpec == EnvInit /\ [][EnvNext]_vars

(* -------------------- link records of every mask ---------------------- *)

\* The flags linkUpdate looks at, in the order of its testFlag calls.
TrackedFlags ==
    <<IFF_UP, IFF_PROMISC, IFF_NOARP, IFF_BROADCAST, IFF_LOOPBACK,
      IFF_POINTOPOINT, IFF_MULTICAST>>

TrackedSet == {TrackedFlags[i] : i \in DOMAIN TrackedFlags}

\* The masks of a run's first such change: all tracked flags, with and
\* without IFF_UP; the second change has any mask.
WideMasks ==
    IF seq["link"] = 0 THEN {TrackedSet, TrackedSet \ {IFF_UP}}
    ELSE SUBSET TrackedSet

\* eth0's flags change by a mask over all tracked flags, on a host where
\* nothing else changes, with no ticker and no command: the first change
\* when no event has happened, the second once the first is processed.
LinkChangeWide(m) ==
    /\ m \in WideMasks
    /\ m # {}
    /\ pc = "select"
    /\ ~cancelled
    /\ interval = 0
    /\ ~cmdName
    /\ \A c \in Cats : c # "link" => seq[c] = 0
    /\ \/ seq["link"] = 0 /\ events = 0
       \/ /\ seq["link"] = 1
          /\ events = MaxEvents
          /\ lastUpdate.Type = "link"
          /\ ch["link"] = <<>>
          /\ sock["link"] = <<>>
    /\ events' = MaxEvents
    /\ kLinks' = [kLinks EXCEPT ![2].Flags = Xor(@, m)]
    /\ Queue("link", [Change |-> m,
                      Flags |-> kLinks'[2].Flags, Name |-> kLinks[2].Name])
    /\ UNCHANGED <<kAddrs, kRoutes, ch, sub, done, pc, err, lastUpdate,
                   timerVars, configVars, env, cancelled, handlerVars, obsVars, age>>

LinkNext == Next \/ \E m \in SUBSET TrackedSet : LinkChangeWide(m)

LinkSpec == Init /\ [][LinkNext]_vars

(* ------------------------------ claims -------------------------------- *)

\* The handler is running on an update.
InHandler == inflight > 0

\* All four subscriptions succeeded.
Subscribed == \A c \in Cats : sub[c] # "none"

StrictlyIncreasing(s) == \A i, j \in 1..Len(s) : i < j => s[i] < s[j]

Ids(q) == [i \in 1..Len(q) |-> q[i].Id]

\* C1: when the four subscriptions have succeeded the handler has been
\* called exactly once with Type init, and that call is the first call of
\* the run, so it precedes every address, link, route, default_route and
\* interval call; before that no call has been made.
C1_InitOnceFirst ==
    /\ first \in {"", "init"}
    /\ inits <= 1
    /\ Subscribed <=> inits = 1
    /\ Subscribed <=> first = "init"

\* An interval call in progress after a call for an address record.
C1_Witness ==
    /\ InHandler
    /\ upd.Type = "interval"
    /\ delivered["address"] # <<>>
    /\ inits = 1

\* C2: Monitor has returned a non-nil error exactly when a subscription
\* failed, and then the handler was never called; every other return, on
\* cancellation or on a closed address, link or route channel, is nil.
C2_ErrorOnlyFromSubscribe ==
    /\ pc = "returned" <=> err # "unset"
    /\ err \in {"unset", "nil", "error"}
    /\ (pc = "returned" /\ ~Subscribed) <=> err = "error"
    /\ err = "error" => inits = 0 /\ first = "" /\ inflight = 0 /\ ~rdy

\* The route subscription failed after the neighbor and address ones.
C2_Witness ==
    /\ pc = "returned"
    /\ err = "error"
    /\ sub["address"] = "closed"
    /\ sub["route"] = "none"

\* A nil return on a closed channel, ctx not cancelled.
C2_WitnessClosed ==
    /\ pc = "returned"
    /\ err = "nil"
    /\ ~cancelled
    /\ \E c \in Selected : sub[c] = "closed"

\* The handler is being entered for a timer tick.
IntervalCall == inflight' = inflight + 1 /\ upd'.Type = "interval"

\* C3: an interval update is only delivered when at least interval seconds
\* have passed since the handler was last called for a record.
C3_Debounce == [][IntervalCall => age >= interval]_vars

\* C4: no return while a handler invocation is in flight; and if every
\* handler invocation returns, then once ctx is cancelled with the
\* subscriptions made, Monitor returns nil.
C4_CancelReturns ==
    /\ [](pc = "returned" => ~InHandler)
    /\ ([]<>(~InHandler)) =>
           []((cancelled /\ Subscribed) => <>(pc = "returned" /\ err = "nil"))

\* Returned nil on cancellation with a tick and an address record waiting.
C4_Witness ==
    /\ pc = "returned"
    /\ err = "nil"
    /\ cancelled
    /\ tmrC > 0
    /\ ch["address"] # <<>>
    /\ \A c \in Selected : sub[c] = "live"

\* C5: a handler whose cmd.Start failed is never left unable to take its
\* next step, with or without -j.
C5_HandlerGoesOn ==
    (InHandler /\ started = "failed") => ENABLED HandlerStep

\* A record of channel c is being received.
RecvOf(c) == pc = "select" /\ ch[c] # <<>> /\ ch'[c] = <<>>

\* The handler is being entered for record a of channel c.
CalledFor(c, a) ==
    /\ inflight' = inflight + 1
    /\ CatOf(upd'.Type) = c
    /\ upd'.Type \in {"address", "link", "route", "default_route"}
    /\ delivered'[c] = Append(delivered[c], a.Id)

NotCalled == inflight' = inflight /\ delivered' = delivered /\ hpc' = hpc

\* C6: the handler is called for a received link record exactly when
\* IFF_UP is in its Change mask, whatever else is in Change and in Flags.
C6_LinkFilter ==
    [][RecvOf("link") =>
         IF IFF_UP \in Head(ch["link"]).Change
         THEN CalledFor("link", Head(ch["link"])) /\ upd'.Type = "link"
         ELSE NotCalled]_vars

\* A record with Change = {promisc} was suppressed while eth0 is up.
C6_Witness ==
    /\ lastUpdate.Type = "link"
    /\ lastUpdate.Change = <<"promisc">>
    /\ lastUpdate.Interfaces["eth0"].Up
    /\ delivered["link"] = <<>>
    /\ pc = "select"

C8_OrderNonReentrant ==
    /\ inflight \in {0, 1}
    /\ InHandler <=> hpc # "idle"
    /\ \A c \in Selected :
           StrictlyIncreasing(delivered[c] \o Ids(ch[c]) \o Ids(sock[c]))

\* Two address records delivered, the second one in the handler.
C8_Witness ==
    /\ delivered["address"] = <<1, 2>>
    /\ InHandler
    /\ upd.Type = "address"

UnicastListed(ip) ==
    /\ IsLinkLocalUnicast(ip) \/ IsGlobalUnicast(ip)
    /\ ~IsLoopback(ip)
    /\ ~IsMulticast(ip)
    /\ ~IsUnspecified(ip)

AllAddressesOf(u) ==
    UNION {{u.Interfaces[n].Addr[i] : i \in 1..Len(u.Interfaces[n].Addr)} :
              n \in DOMAIN u.Interfaces}

\* C9: every address under Interfaces of the update the handler holds, and
\* of the loop's lastUpdate, is link-local unicast or global unicast, by its
\* netlink address and by its text; none is loopback, multicast or
\* unspecified.
C9_OnlyUnicastListed ==
    \A u \in {upd, lastUpdate} :
        \A a \in AllAddressesOf(u) :
            UnicastListed(a.N.IP) /\ UnicastListed(ParseIP(a.Address))

\* An address update in the handler: lo lists nothing although the kernel
\* has 127.0.0.1 and ::1 on it, eth0 lists three of its four addresses.
C9_Witness ==
    /\ InHandler
    /\ upd.Type = "address"
    /\ upd.Interfaces["lo"].Addr = <<>>
    /\ Len(kAddrs[1]) = 2
    /\ Len(upd.Interfaces["eth0"].Addr) = 3
    /\ Len(kAddrs[2]) = 4

\* C10: every route of the update the handler holds, and of lastUpdate, has
\* table 254 and scope universe or link, none has a link-local destination,
\* and Destination is "default" exactly for a route without destination.
C10_RoutesFiltered ==
    \A u \in {upd, lastUpdate} :
        \A i \in 1..Len(u.Routes) :
            LET r == u.Routes[i]
            IN  /\ r.route.Table = 254
                /\ r.route.Scope \in {SCOPE_UNIVERSE, SCOPE_LINK}
                /\ r.route.Dst # NoDst => ~IsLinkLocalUnicast(r.route.Dst.IP)
                /\ r.route.Dst = NoDst <=> r.Destination = DefaultString

\* A route update in the handler with both default routes and the connected
\* route, while the kernel also has the local and the fe80::/64 route.
C10_Witness ==
    /\ InHandler
    /\ upd.Type = "default_route"
    /\ Len(upd.Routes) = 3
    /\ upd.Routes[1].Destination = DefaultString
    /\ upd.Routes[3].Destination = DefaultString
    /\ SeqHas(kRoutes, RouteLocal)
    /\ SeqHas(kRoutes, RouteLinkLocal)

\* The list e is in non-decreasing byte order.
SortedStrings(e) == \A i \in 1..(Len(e) - 1) : ~StrLess(e[i + 1], e[i])

\* The positions of env whose entry starts with p.
WithPrefix(p) ==
    {i \in 1..Len(env) : Len(env[i]) >= Len(p) /\ SubSeq(env[i], 1, Len(p)) = p}

\* The entry e is in env.
InEnv(e) == \E i \in 1..Len(env) : env[i] = e

\* C11: whatever order the range over Interfaces takes, MarshalEnv returns
\* the list it returned before, and that list is in non-decreasing
\* lexicographic order.
C11_EnvSortedDeterministic ==
    hpc = "env" =>
        /\ SortedStrings(env)
        /\ \A o \in Orders(upd) : MarshalEnv(upd, o) = env

\* A result for which the range order matters before the sort: lo and eth0
\* visited either way, eth0 with addresses, a default route selected.
C11_Witness ==
    /\ hpc = "env"
    /\ \E o1, o2 \in Orders(upd) : EnvUnsorted(upd, o1) # EnvUnsorted(upd, o2)
    /\ Len(upd.Interfaces["eth0"].Addr) = 2
    /\ WithPrefix(S_IPV4_GW) # {}
    /\ Len(env) >= 10

\* The routes of u without destination that belong to family fam.
DefaultsOf(u, fam) ==
    {i \in 1..Len(u.Routes) :
         u.Routes[i].route.Dst = NoDst /\ u.Routes[i].route.Family = fam}

\* The one with the lowest priority, the first in list order among equals.
LowestOf(u, cands) ==
    CHOOSE k \in cands :
        \A j \in cands :
            \/ u.Routes[k].route.Priority < u.Routes[j].route.Priority
            \/ u.Routes[k].route.Priority = u.Routes[j].route.Priority /\ k <= j

\* The IF and GW entries of family fam are exactly those of route r.
DefaultEntries(keyIf, keyGw, r) ==
    /\ \A i \in WithPrefix(keyIf) : env[i] = keyIf \o Ascii(r.Link)
    /\ WithPrefix(keyIf) # {}
    /\ \A i \in WithPrefix(keyGw) : env[i] = keyGw \o Text(IPString(r.route.Gw))
    /\ r.route.Gw # NoIP => WithPrefix(keyGw) # {}

\* C12: for IPv4 and for IPv6, when Routes has routes without destination of
\* that family, IPMON_IPVx_IF and IPMON_IPVx_GW are those of the one with the
\* lowest priority, the first of equals.
C12_DefaultRouteByFamily ==
    hpc = "env" =>
        /\ DefaultsOf(upd, AF_INET) # {} =>
               DefaultEntries(S_IPV4_IF, S_IPV4_GW,
                              upd.Routes[LowestOf(upd, DefaultsOf(upd, AF_INET))])
        /\ DefaultsOf(upd, AF_INET6) # {} =>
               DefaultEntries(S_IPV6_IF, S_IPV6_GW,
                              upd.Routes[LowestOf(upd, DefaultsOf(upd, AF_INET6))])

\* The addresses of interface n of upd that are IPv6 and satisfy P.
IsV6(ip) == Len(ip) = IPv6len /\ To4(ip) = NoIP

IsUniqueLocal(ip) == IsV6(ip) /\ ip[1] \in {252, 253}

AddrsOf(n) == {upd.Interfaces[n].Addr[i] : i \in 1..Len(upd.Interfaces[n].Addr)}

\* C13: a unique-local IPv6 address yields no IPMON_IPV6_, IPMON_IPV6_MASK_
\* or IPMON_IPV6_TTL_ entry (an interface whose IPv6 addresses are all
\* unique-local or link-local has no such key at all), a link-local IPv6
\* address yields its IPMON_LL_IPV6_ entry, and every interface has exactly
\* one IPMON_UP_ entry.
C13_PrivateV6Excluded ==
    hpc = "env" =>
        \A n \in DOMAIN upd.Interfaces :
            /\ Cardinality(WithPrefix(S_UP_ \o Ascii(n) \o ChEq)) = 1
            /\ \A a \in AddrsOf(n) :
                   /\ IsUniqueLocal(a.N.IP) =>
                          ~InEnv(Entry(S_IPV6_, n, Text(a.Address)))
                   /\ IsV6(a.N.IP) /\ IsLinkLocalUnicast(a.N.IP) =>
                          InEnv(Entry(S_LL_IPV6_, n, Text(a.Address)))
            /\ (\A a \in AddrsOf(n) :
                    IsV6(a.N.IP) => IsUniqueLocal(a.N.IP) \/ IsLinkLocalUnicast(a.N.IP))
                   => /\ WithPrefix(S_IPV6_ \o Ascii(n) \o ChEq) = {}
                      /\ WithPrefix(S_IPV6_MASK_ \o Ascii(n) \o ChEq) = {}
                      /\ WithPrefix(S_IPV6_TTL_ \o Ascii(n) \o ChEq) = {}

\* eth0 with a unique-local and a link-local IPv6 address.
C13_Witness ==
    /\ hpc = "env"
    /\ \E a \in AddrsOf("eth0") : IsUniqueLocal(a.N.IP)
    /\ \E a \in AddrsOf("eth0") : IsV6(a.N.IP) /\ IsLinkLocalUnicast(a.N.IP)
    /\ WithPrefix(S_LL_IPV6_) # {}

\* The KEY part of an entry: what is before its first "=".
KeyOf(e) ==
    LET eqs == {i \in 1..Len(e) : <<e[i]>> = ChEq}
    IN  IF eqs = {} THEN e
        ELSE SubSeq(e, 1, (CHOOSE i \in eqs : \A j \in eqs : i <= j) - 1)

\* C20: no two entries of the list MarshalEnv returned have the same key.
C20_UniqueKeys ==
    hpc = "env" =>
        \A i, j \in 1..Len(env) : i # j => KeyOf(env[i]) # KeyOf(env[j])

\* C14: while Monitor keeps running (it goes on delivering interval
\* updates), a record in the neighbor channel is eventually taken off it.
C14_NeighborConsumed ==
    ([]<>(InHandler /\ upd.Type = "interval"))
        => [](ch["neighbor"] # <<>> => <>(ch["neighbor"] = <<>>))

\* The loop is taking a tick off tmr.C.
TickSelected == pc = "select" /\ tmrC' = tmrC - 1 /\ tmrC > 0

\* The handler is returning from the call made for a tick.
TickReturn == cause = "tick" /\ InHandler /\ inflight' = inflight - 1

\* C15: a selected tick causes one handler invocation, of Type interval
\* with no Change and no Link, Address, Gateway or Source; neither the
\* selection nor the return from that call touches the ticker's period or
\* the loop's lastUpdate; and with interval <= 0 no update of Type interval
\* is delivered.
C15_TickUpdate ==
    [][/\ TickSelected =>
             /\ inflight' = inflight + 1
             /\ upd'.Type = "interval"
             /\ upd'.Change = <<>>
             /\ upd'.Link = ""
             /\ upd'.Address = NoAddress
             /\ upd'.Gateway = EmptyString
             /\ upd'.Source = EmptyString
             /\ lastUpdate' = lastUpdate
             /\ tmrLeft' = tmrLeft
             /\ tmr' = tmr
       /\ TickReturn => timerVars' = timerVars /\ lastUpdate' = lastUpdate
       /\ interval <= 0 => upd'.Type # "interval"]_vars

\* An interval update in the handler while the loop's lastUpdate is the
\* annotated update of an earlier link record, half a period before the
\* next tick.
C15_Witness ==
    /\ InHandler
    /\ upd.Type = "interval"
    /\ lastUpdate.Type = "link"
    /\ lastUpdate.Change # <<>>
    /\ tmrLeft = interval

\* Record a of channel c is one the Update Deriver reports as not notable.
Suppressed(c, a) ==
    IF c = "link" THEN IFF_UP \notin a.Change
    ELSE ~(a.Scope \in {SCOPE_UNIVERSE, SCOPE_LINK} /\ a.Table = 254)

\* C16: receiving a suppressed link or route record calls no handler and
\* leaves the ticker as it is: the time to the next tick, a tick already
\* waiting, and the loop staying in its select.
C16_SuppressedNoReset ==
    [][\A c \in {"link", "route"} :
          (RecvOf(c) /\ Suppressed(c, Head(ch[c]))) =>
              /\ NotCalled
              /\ pc' = "select"
              /\ tmr' = tmr
              /\ tmrLeft' = tmrLeft
              /\ tmrC' = tmrC
              /\ age' = age]_vars

\* A route record was suppressed while the ticker runs and a tick is
\* waiting to be selected.
C16_Witness ==
    /\ pc = "select"
    /\ lastUpdate.Type \in {"route", "default_route"}
    /\ seq["route"] > 0
    /\ delivered["route"] = <<>>
    /\ ch["route"] = <<>>
    /\ sock["route"] = <<>>
    /\ tmr
    /\ tmrC = 1

\* The handler is being entered.
Entered == inflight' = inflight + 1

\* C17: the Interfaces and Routes of every update passed to the handler are
\* the filtered enumeration of the kernel's state in the step that selected
\* the record or tick and made the call.
C17_FreshSnapshot ==
    [][Entered => /\ upd'.Interfaces = genInterfaces
                  /\ upd'.Routes = genRoutes
                  /\ kernelVars' = kernelVars]_vars

\* An address update in the handler that lists a route added after the
\* previous update was built, its own record still waiting.
C17_Witness ==
    /\ InHandler
    /\ upd.Type = "address"
    /\ Len(upd.Routes) > Len(SelectSeq(InitRoutes, KeepRoute))
    /\ delivered["route"] = <<>>
    /\ (ch["route"] # <<>> \/ sock["route"] # <<>>)

\* The fields of an update that describe the change.
Annotations(u) == <<u.Change, u.Link, u.Address, u.Gateway, u.Source>>

NoAnnotations == <<<<>>, "", NoAddress, EmptyString, EmptyString>>

AddTags ==
    <<"up", "promisc", "noarp", "broadcast", "loopback", "pointtopoint",
      "multicast">>

DeleteTags ==
    <<"down", "nopromisc", "arp", "nobroadcast", "noloopback",
      "nopointtopoint", "nomulticast">>

\* One tag for each tracked flag from the i-th on that is in the record's
\* Change mask, in the fixed order.
RECURSIVE LinkTags(_, _)
LinkTags(a, i) ==
    IF i > Len(TrackedFlags) THEN <<>>
    ELSE (IF TrackedFlags[i] \notin a.Change THEN <<>>
          ELSE IF TrackedFlags[i] \in a.Flags THEN <<AddTags[i]>>
          ELSE <<DeleteTags[i]>>)
         \o LinkTags(a, i + 1)

\* What record a of channel c alone says about the change.
RecordAnnotations(c, a) ==
    IF c = "link"
    THEN <<LinkTags(a, 1), a.Name, NoAddress, EmptyString, EmptyString>>
    ELSE IF c = "address"
    THEN <<IF a.NewAddr THEN <<"add">> ELSE <<"delete">>,
           LinkByIndex(a.LinkIndex),
           [Address |-> IPString(a.LinkAddress.IP), CIDR |-> a.LinkAddress.Bits],
           EmptyString, EmptyString>>
    ELSE <<IF a.Type = RTM_NEWROUTE THEN <<"add">> ELSE <<"delete">>,
           LinkByIndex(a.ILinkIndex),
           IF a.Dst = NoDst THEN NoAddress
           ELSE [Address |-> IPString(a.Dst.IP), CIDR |-> a.Dst.Bits],
           IF a.Gw = NoIP THEN EmptyString ELSE IPString(a.Gw),
           IF a.Src = NoIP THEN EmptyString ELSE IPString(a.Src)>>

\* C18: the Change, Link, Address, Gateway and Source of every update
\* passed to the handler are those of the record received in that step
\* alone, and none for the init update and for a tick; a link update's
\* Change holds one tag per tracked flag of the record's mask, in the order
\* up, promisc, noarp, broadcast, loopback, pointtopoint, multicast.
C18_NoAnnotationLeak ==
    [][Entered =>
         IF \E c \in Selected : RecvOf(c)
         THEN \A c \in Selected :
                  RecvOf(c) =>
                      Annotations(upd') = RecordAnnotations(c, Head(ch[c]))
         ELSE Annotations(upd') = NoAnnotations]_vars

\* A link update with all seven tags in the handler, for the second link
\* record; the first, with six tags, was suppressed.
C18_Witness ==
    /\ InHandler
    /\ upd.Type = "link"
    /\ upd.Change = <<"down", "nopromisc", "arp", "broadcast", "noloopback",
                      "nopointtopoint", "multicast">>
    /\ delivered["link"] = <<2>>

\* The announced Address is among the addresses listed for interface Link.
Listed(u) ==
    /\ u.Link \in DOMAIN u.Interfaces
    /\ \E k \in DOMAIN u.Interfaces[u.Link].Addr :
           /\ u.Interfaces[u.Link].Addr[k].Address = u.Address.Address
           /\ u.Interfaces[u.Link].Addr[k].CIDR = u.Address.CIDR

\* C19: an address update in the handler that announces an added address
\* lists it in Interfaces[Link], and one that announces a deleted address
\* does not.
C19_AddressAgreesWithSnapshot ==
    (InHandler /\ upd.Type = "address") =>
        /\ upd.Change = <<"add">> => Listed(upd)
        /\ upd.Change = <<"delete">> => ~Listed(upd)


====
